---------------------------- MODULE Spec2Model ----------------------------
(*
  Model of requestor.py of hash-cracker: the partitioner data(), the
  per-context step generator worker(), the aggregation loop main() and the
  interrupt handling of the __main__ block.

  The yapapi Executor is outside the repository.  The model keeps only what
  requestor.py relies on at each of its suspension points: the Executor calls
  next() on the iterator returned by data(), hands each Task to one worker()
  generator, executes the plan a worker yields and either resumes the worker
  or throws the failure into it, and delivers accepted tasks to the loop of
  main() in the order in which they were accepted.
*)
EXTENDS Integers, Sequences, FiniteSets, TLC

VARIABLES
  file,         \* the lines of the words file, each a sequence of characters
  chunk_count,  \* args.workers as passed to data()
  gen,          \* the generator object returned by data(): pc, lines, chunk_size, i, error
  units,        \* the Task objects created so far, in creation order
  wpc,          \* per context: position of its worker() generator
  wtask,        \* per context: index in units of the task at hand (0: none)
  steps,        \* per context: the steps recorded on the WorkContext and not yet committed
  computed,     \* tasks accepted and not yet delivered to the loop of main(), oldest first
  consumed,     \* tasks the loop of main() has printed, in order
  result,       \* main(): the local variable result
  report,       \* main(): the final print, <<>> before it
  mainpc,       \* position of the coroutine main()
  why,          \* the exception, if any, with which main() leaves the async with block
  exec,         \* the Executor context manager: "open", "closing", "closed"
  cancelreq,    \* task.cancel() has been called on the task of main() and not yet delivered
  toppc,        \* position of the __main__ block
  interrupts    \* number of KeyboardInterrupts raised so far

vars == <<file, chunk_count, gen, units, wpc, wtask, steps, computed, consumed,
          result, report, mainpc, why, exec, cancelreq, toppc, interrupts>>

-----------------------------------------------------------------------------
(* Bounds *)

MaxLines == 4        \* longest words file of the partitioner specification
MaxChunks == 3       \* largest chunk count of the partitioner specification
NegChunks == 2       \* chunk counts down to -NegChunks are tried
RunLines == 3        \* longest words file of a run
NumContexts == 2     \* execution contexts the Executor offers in a run
MaxInterrupts == 2   \* KeyboardInterrupts delivered in a run

-----------------------------------------------------------------------------
(* Characters and lines *)

Whitespace == {" ", "\n"}

\* the raw lines a words file is made of
RawLines == { <<"a", "\n">>, <<" ", "b", "\n">>, <<"\n">> }

RECURSIVE LStrip(_)
LStrip(s) ==
  IF s # <<>> /\ Head(s) \in Whitespace THEN LStrip(Tail(s)) ELSE s

RECURSIVE RStrip(_)
RStrip(s) ==
  IF s # <<>> /\ s[Len(s)] \in Whitespace THEN RStrip(SubSeq(s, 1, Len(s) - 1)) ELSE s

\* str.strip()
Strip(s) == RStrip(LStrip(s))

\* lines = [line.strip() for line in f]
ReadLines(f) == [k \in 1..Len(f) |-> Strip(f[k])]

\* bool(x) of a str or a list
Truthy(x) == x # <<>>

Min(a, b) == IF a < b THEN a ELSE b

\* Ceil with the division truncated: a // b
CeilFloored(a, b) ==
  IF b > 0 THEN a \div b ELSE 0 - (a \div (0 - b))

\* math.ceil(a / b) for an int a >= 0 and an int b # 0
Ceil(a, b) ==
  IF b > 0 THEN (a + b - 1) \div b ELSE 0 - (a \div (0 - b))

\* lines[i : i + size] for 0 <= i and size > 0
Slice(ls, i, size) == SubSeq(ls, i + 1, Min(i + size, Len(ls)))

\* Task(data=chunk)
Task(chunk) ==
  [data |-> chunk, status |-> "Pending", result |-> <<>>, plan |-> <<>>,
   tmp |-> "none", ctx |-> 0, commits |-> 0, seq |-> 0]

-----------------------------------------------------------------------------
(* data(): the generator *)

NewGen == [pc |-> "start", lines |-> <<>>, chunk_size |-> 0, i |-> 0, error |-> "none"]

GenRaise(g, e) == [g EXCEPT !.pc = "raised", !.error = e]

RECURSIVE AllChunks(_, _, _)
AllChunks(ls, size, i) ==
  IF size > 0 /\ i < Len(ls)
  THEN <<Task(Slice(ls, i, size))>> \o AllChunks(ls, size, i + size)
  ELSE <<>>

\* GenLoop building the list of all Tasks at once instead of yielding them
GenLoopEager(g, ls, size, i) ==
  [gen |-> [g EXCEPT !.pc = "done", !.lines = ls, !.chunk_size = size, !.i = i],
   out |-> AllChunks(ls, size, i)]

\* the loop of data() entered with index i: yield the chunk at i, or return
GenLoop(g, ls, size, i) ==
  IF (size > 0 /\ i < Len(ls))
  THEN [gen |-> [g EXCEPT !.pc = "yielded", !.lines = ls, !.chunk_size = size, !.i = i],
        out |-> <<Task(Slice(ls, i, size))>>]
  ELSE [gen |-> [g EXCEPT !.pc = "done", !.lines = ls, !.chunk_size = size, !.i = i],
        out |-> <<>>]

\* next(data_iterator): the generator after the call and the Task it yields, if any
DataNext(g, f, n) ==
  CASE g.pc = "start" ->
         LET ls == ReadLines(f) IN
         IF n = 0 THEN [gen |-> GenRaise(g, "ZeroDivisionError"), out |-> <<>>]
         ELSE LET size == Ceil(Len(ls), n) IN
              IF size = 0
              THEN [gen |-> GenRaise([g EXCEPT !.lines = ls], "ValueError"), out |-> <<>>]
              ELSE GenLoop(g, ls, size, 0)
    [] g.pc = "yielded" -> GenLoop(g, g.lines, g.chunk_size, g.i + g.chunk_size)
    [] OTHER -> [gen |-> g, out |-> <<>>]

GenFinished(g) == g.pc \in {"done", "raised"}

-----------------------------------------------------------------------------
(* The partitioner on its own: list(data(dict_file, chunk_count)) *)

Files(n) == UNION { [1..k -> RawLines] : k \in 0..n }

Contexts == 1..NumContexts

IdleRun ==
  /\ gen = NewGen
  /\ units = <<>>
  /\ wpc = [c \in Contexts |-> "pull"]
  /\ wtask = [c \in Contexts |-> 0]
  /\ steps = [c \in Contexts |-> <<>>]
  /\ computed = <<>>
  /\ consumed = <<>>
  /\ result = <<>>
  /\ report = <<>>
  /\ mainpc = "loop"
  /\ why = "none"
  /\ exec = "open"
  /\ cancelreq = FALSE
  /\ toppc = "run116"
  /\ interrupts = 0

InitData ==
  /\ file \in Files(MaxLines)
  /\ chunk_count \in (0 - NegChunks)..MaxChunks
  /\ IdleRun

runvars == <<wpc, wtask, steps, computed, consumed, result, report, mainpc, why,
             exec, cancelreq, toppc, interrupts>>

\* one next() of the consumer of the iterator
Collect ==
  /\ ~GenFinished(gen)
  /\ LET d == DataNext(gen, file, chunk_count) IN
       /\ gen' = d.gen
       /\ units' = units \o d.out
  /\ UNCHANGED <<file, chunk_count, runvars>>

NextData == Collect

SpecData == InitData /\ [][NextData]_vars

-----------------------------------------------------------------------------
(* A run: Executor.submit(worker, data_iterator) consumed by main() *)

\* the words files of a run: the first k lines of a fixed file
RunLine(k) ==
  CASE k % 3 = 1 -> <<"a", "\n">>
    [] k % 3 = 2 -> <<" ", "b", "\n">>
    [] OTHER -> <<"\n">>

RunFiles == { [k \in 1..n |-> RunLine(k)] : n \in 0..RunLines }

\* the chunk counts of a run (--workers)
RunChunks == {1, 2, 3}

Init ==
  /\ file \in RunFiles
  /\ chunk_count \in RunChunks
  /\ IdleRun

Pending == { u \in 1..Len(units) : units[u].status = "Pending" }

InFlight == { u \in 1..Len(units) : units[u].status = "Dispatched" }

Waiting == { c \in Contexts : wpc[c] = "pull" }

SetMin(S) == CHOOSE x \in S : \A y \in S : x <= y

\* The Executor takes the next Task from data_iterator for a worker that is
\* waiting in `async for task in tasks`
Produce ==
  /\ exec = "open"
  /\ ~GenFinished(gen)
  /\ Cardinality(Pending) < Cardinality(Waiting)
  /\ LET d == DataNext(gen, file, chunk_count) IN
       /\ gen' = d.gen
       /\ units' = units \o d.out
  /\ UNCHANGED <<file, chunk_count, runvars>>

\* lines 59-65: the four steps recorded on the context for the task
PlanSteps(task) ==
  << [op |-> "send_json", dst |-> "WORDS_PATH", src |-> task.data],
     [op |-> "send_file", dst |-> "HASH_PATH", src |-> "args.hash"],
     [op |-> "run", dst |-> "/golem/entrypoint/worker.py", src |-> <<>>],
     [op |-> "download_file", dst |-> "output_file.name", src |-> "RESULT_PATH"] >>

\* context.commit() that leaves the recorded steps on the context
CommitKeeping(recorded) == recorded

\* line 68: what context.commit() leaves recorded on the context
Commit(recorded) == <<>>

\* Pull with task.accept_result called before the yield of line 68
PullAccepting(c) ==
  /\ exec = "open"
  /\ wpc[c] = "pull"
  /\ Pending # {}
  /\ LET u == SetMin(Pending)
         recorded == steps[c] \o PlanSteps(units[u]) IN
       /\ units' = [units EXCEPT ![u].status = "Completed",
                                 ![u].tmp = "open",
                                 ![u].plan = recorded,
                                 ![u].ctx = c,
                                 ![u].commits = @ + 1]
       /\ steps' = [steps EXCEPT ![c] = <<>>]
       /\ wtask' = [wtask EXCEPT ![c] = u]
       /\ wpc' = [wpc EXCEPT ![c] = "committed"]
  /\ UNCHANGED <<file, chunk_count, gen, computed, consumed, result, report, mainpc,
                 why, exec, cancelreq, toppc, interrupts>>

\* worker(): `async for` hands over a task; the steps are recorded, the
\* temporary file is created and context.commit() is yielded
Pull(c) ==
  /\ exec = "open"
  /\ wpc[c] = "pull"
  /\ Pending # {}
  /\ LET u == SetMin(Pending)
         recorded == steps[c] \o PlanSteps(units[u]) IN
       /\ units' = [units EXCEPT ![u].status = "Dispatched",
                                 ![u].tmp = "open",
                                 ![u].plan = recorded,
                                 ![u].ctx = c,
                                 ![u].commits = @ + 1]
       /\ steps' = [steps EXCEPT ![c] = Commit(recorded)]
       /\ wtask' = [wtask EXCEPT ![c] = u]
       /\ wpc' = [wpc EXCEPT ![c] = "committed"]
  /\ UNCHANGED <<file, chunk_count, gen, computed, consumed, result, report, mainpc,
                 why, exec, cancelreq, toppc, interrupts>>

\* the tasks whose result was accepted
Accepted == { u \in 1..Len(units) : units[u].status = "Completed" }

\* what the remote worker.py may write for a task: a word of the chunk, or nothing
Outputs(task) == { <<>> } \cup { task.data[k] : k \in 1..Len(task.data) }

\* Accept without the output_file.close() of line 71
AcceptNoClose(c) ==
  /\ exec = "open"
  /\ wpc[c] = "committed"
  /\ \E r \in Outputs(units[wtask[c]]) :
       units' = [units EXCEPT ![wtask[c]].status = "Completed",
                              ![wtask[c]].result = r,
                              ![wtask[c]].seq = Cardinality(Accepted) + 1]
  /\ computed' = Append(computed, wtask[c])
  /\ wtask' = [wtask EXCEPT ![c] = 0]
  /\ wpc' = [wpc EXCEPT ![c] = "pull"]
  /\ UNCHANGED <<file, chunk_count, gen, steps, consumed, result, report, mainpc,
                 why, exec, cancelreq, toppc, interrupts>>

\* lines 70-71 after a successful plan: the output decodes, the result is
\* accepted and the temporary file is closed; the worker asks for the next task
Accept(c) ==
  /\ exec = "open"
  /\ wpc[c] = "committed"
  /\ \E r \in Outputs(units[wtask[c]]) :
       units' = [units EXCEPT ![wtask[c]].status = "Completed",
                              ![wtask[c]].result = r,
                              ![wtask[c]].tmp = "closed",
                              ![wtask[c]].seq = Cardinality(Accepted) + 1]
  /\ computed' = Append(computed, wtask[c])
  /\ wtask' = [wtask EXCEPT ![c] = 0]
  /\ wpc' = [wpc EXCEPT ![c] = "pull"]
  /\ UNCHANGED <<file, chunk_count, gen, steps, consumed, result, report, mainpc,
                 why, exec, cancelreq, toppc, interrupts>>

\* an exception leaves worker() at the given line: nothing in worker() catches
\* it, so the generator ends there and lines after it are not run; the task
\* was not accepted, and the Executor counts it as failed
WorkerRaise(c, line) ==
  /\ units' = [units EXCEPT ![wtask[c]].status = "Failed"]
  /\ wpc' = [wpc EXCEPT ![c] = line]
  /\ UNCHANGED <<file, chunk_count, gen, wtask, steps, computed, consumed, result,
                 report, mainpc, why, exec, cancelreq, toppc, interrupts>>

\* PlanFail with the failure caught in worker() and the same plan committed again
PlanFailRetry(c) ==
  /\ exec = "open"
  /\ wpc[c] = "committed"
  /\ units[wtask[c]].commits < 3
  /\ units' = [units EXCEPT ![wtask[c]].commits = @ + 1]
  /\ UNCHANGED <<file, chunk_count, gen, wpc, wtask, steps, computed, consumed, result,
                 report, mainpc, why, exec, cancelreq, toppc, interrupts>>

\* line 68: the plan fails on the provider and the failure is thrown into the
\* generator at the yield
PlanFail(c) ==
  /\ exec = "open"
  /\ wpc[c] = "committed"
  /\ WorkerRaise(c, "raised68")

\* line 70: the plan succeeds but json.load cannot decode the fetched output
DecodeFail(c) ==
  /\ exec = "open"
  /\ wpc[c] = "committed"
  /\ WorkerRaise(c, "raised70")

\* worker(): the task stream is exhausted, `async for` ends and so does the generator
WorkerEnd(c) ==
  /\ exec = "open"
  /\ wpc[c] = "pull"
  /\ gen.pc = "done"
  /\ Pending = {}
  /\ wpc' = [wpc EXCEPT ![c] = "returned"]
  /\ UNCHANGED <<file, chunk_count, gen, units, wtask, steps, computed, consumed,
                 result, report, mainpc, why, exec, cancelreq, toppc, interrupts>>

-----------------------------------------------------------------------------
(* main() *)

workervars == <<wpc, wtask, steps>>

\* MainConsume with lines 100-103 indented into the loop body
MainConsumeReporting ==
  /\ mainpc = "loop"
  /\ ~cancelreq
  /\ computed # <<>>
  /\ LET u == Head(computed)
         r == IF Truthy(units[u].result) THEN units[u].result ELSE result IN
       /\ consumed' = Append(consumed, u)
       /\ result' = r
       /\ report' = IF Truthy(r) THEN <<"Found matching word", r>>
                                 ELSE <<"No matching words found.">>
  /\ computed' = Tail(computed)
  /\ UNCHANGED <<file, chunk_count, gen, units, workervars, mainpc, why,
                 exec, cancelreq, toppc, interrupts>>

\* MainConsume taking the computed tasks in the order of their creation
MainConsumeInOrder ==
  /\ mainpc = "loop"
  /\ ~cancelreq
  /\ computed # <<>>
  /\ LET u == SetMin({ computed[k] : k \in 1..Len(computed) }) IN
       /\ consumed' = Append(consumed, u)
       /\ result' = IF Truthy(units[u].result) THEN units[u].result ELSE result
       /\ computed' = SelectSeq(computed, LAMBDA v : v # u)
  /\ UNCHANGED <<file, chunk_count, gen, units, workervars, report, mainpc, why,
                 exec, cancelreq, toppc, interrupts>>

\* MainConsume with the print of line 95 moved under `if task.result`
MainConsumeSilent ==
  /\ mainpc = "loop"
  /\ ~cancelreq
  /\ computed # <<>>
  /\ LET u == Head(computed) IN
       /\ consumed' = IF Truthy(units[u].result) THEN Append(consumed, u) ELSE consumed
       /\ result' = IF Truthy(units[u].result) THEN units[u].result ELSE result
  /\ computed' = Tail(computed)
  /\ UNCHANGED <<file, chunk_count, gen, units, workervars, report, mainpc, why,
                 exec, cancelreq, toppc, interrupts>>

\* MainConsume keeping the first truthy result: `if task.result and not result`
MainConsumeFirstWins ==
  /\ mainpc = "loop"
  /\ ~cancelreq
  /\ computed # <<>>
  /\ LET u == Head(computed) IN
       /\ consumed' = Append(consumed, u)
       /\ result' = IF Truthy(units[u].result) /\ ~Truthy(result)
                    THEN units[u].result ELSE result
  /\ computed' = Tail(computed)
  /\ UNCHANGED <<file, chunk_count, gen, units, workervars, report, mainpc, why,
                 exec, cancelreq, toppc, interrupts>>

\* lines 93-98: one round of the loop over the stream of computed tasks
MainConsume ==
  /\ mainpc = "loop"
  /\ ~cancelreq
  /\ computed # <<>>
  /\ LET u == Head(computed) IN
       /\ consumed' = Append(consumed, u)
       /\ result' = IF Truthy(units[u].result) THEN units[u].result ELSE result
  /\ computed' = Tail(computed)
  /\ UNCHANGED <<file, chunk_count, gen, units, workervars, report, mainpc, why,
                 exec, cancelreq, toppc, interrupts>>

\* the stream of submit() ends: the iterator is exhausted, every task taken
\* from it was accepted or has failed, and every accepted one was delivered
StreamEnded ==
  /\ gen.pc = "done"
  /\ computed = <<>>
  /\ \A u \in 1..Len(units) : units[u].status \in {"Completed", "Failed"}

\* lines 100-103: the final print, then the async with block is left
MainReport ==
  /\ mainpc = "loop"
  /\ ~cancelreq
  /\ StreamEnded
  /\ report' = IF Truthy(result) THEN <<"Found matching word", result>>
                                 ELSE <<"No matching words found.">>
  /\ mainpc' = "aexit"
  /\ exec' = "closing"
  /\ UNCHANGED <<file, chunk_count, gen, units, workervars, computed, consumed,
                 result, why, cancelreq, toppc, interrupts>>

\* an exception reaches main() at line 93 and leaves the async with block
MainRaise(e) ==
  /\ why' = e
  /\ mainpc' = "aexit"
  /\ exec' = "closing"
  /\ UNCHANGED <<file, chunk_count, gen, units, workervars, computed, consumed,
                 result, report, toppc, interrupts>>

\* line 92-93: data() raised while the Executor iterated it
ProducerError ==
  /\ mainpc = "loop"
  /\ ~cancelreq
  /\ gen.pc = "raised"
  /\ MainRaise(gen.error)
  /\ UNCHANGED cancelreq

\* line 87: the timeout given to the Executor expires while main() waits at line 93
Deadline ==
  /\ mainpc = "loop"
  /\ ~cancelreq
  /\ MainRaise("TimeoutError")
  /\ UNCHANGED cancelreq

\* line 119 takes effect: CancelledError is thrown into main() where it waits
MainCancelled ==
  /\ cancelreq
  /\ mainpc \in {"loop", "aexit"}
  /\ MainRaise(IF mainpc = "loop" \/ why = "none" THEN "CancelledError" ELSE why)
  /\ cancelreq' = FALSE

\* the generator of a worker that is closed by the Executor while suspended
Closed(pc) == IF pc \in {"pull", "committed"} THEN "closed" ELSE pc

\* how the __main__ block ends once the task of main() is done
Exit(e) ==
  CASE e = "none" -> "exit_ok"
    [] e = "CancelledError" -> "exit_cancelled"
    [] e = "TimeoutError" -> "exit_timeout"
    [] OTHER -> "exit_error"

\* the Executor's __aexit__ completes: the workers still suspended are closed
\* where they are, main() is done and run_until_complete returns or raises
Shutdown ==
  /\ mainpc = "aexit"
  /\ ~cancelreq
  /\ toppc \in {"run116", "run120"}
  /\ exec' = "closed"
  /\ wpc' = [c \in Contexts |-> Closed(wpc[c])]
  /\ mainpc' = "done"
  /\ toppc' = Exit(why)
  /\ UNCHANGED <<file, chunk_count, gen, units, wtask, steps, computed, consumed,
                 result, report, why, cancelreq, interrupts>>

-----------------------------------------------------------------------------
(* __main__ *)

\* lines 115-119: KeyboardInterrupt out of the first run_until_complete;
\* the handler cancels the task and runs the loop again at line 120
Interrupt ==
  /\ toppc = "run116"
  /\ interrupts < MaxInterrupts
  /\ interrupts' = interrupts + 1
  /\ cancelreq' = TRUE
  /\ toppc' = "run120"
  /\ UNCHANGED <<file, chunk_count, gen, units, workervars, computed, consumed,
                 result, report, mainpc, why, exec>>

\* line 120: KeyboardInterrupt out of the second run_until_complete, which is
\* inside the handler and not inside a try: the process ends with the traceback
InterruptAgain ==
  /\ toppc = "run120"
  /\ interrupts < MaxInterrupts
  /\ interrupts' = interrupts + 1
  /\ toppc' = "exit_interrupt"
  /\ UNCHANGED <<file, chunk_count, gen, units, workervars, computed, consumed,
                 result, report, mainpc, why, exec, cancelreq>>

Next ==
  \/ Produce
  \/ \E c \in Contexts : Pull(c)
  \/ \E c \in Contexts : Accept(c)
  \/ \E c \in Contexts : PlanFail(c)
  \/ \E c \in Contexts : DecodeFail(c)
  \/ \E c \in Contexts : WorkerEnd(c)
  \/ MainConsume
  \/ MainReport
  \/ ProducerError
  \/ Deadline
  \/ MainCancelled
  \/ Shutdown
  \/ Interrupt
  \/ InterruptAgain

Spec == Init /\ [][Next]_vars

-----------------------------------------------------------------------------
(* Properties of the partitioner, checked under SpecData *)

RECURSIVE Concat(_)
Concat(groups) ==
  IF groups = <<>> THEN <<>> ELSE Head(groups) \o Concat(Tail(groups))

Groups == [u \in 1..Len(units) |-> units[u].data]

\* the least q with q * b >= a, for a >= 0 and b >= 1
CeilOf(a, b) == CHOOSE q \in 0..a : q * b >= a /\ \A p \in 0..a : p * b >= a => q <= p

Records == ReadLines(file)

\* C1: for every words file of L >= 0 records and every chunk count N >= 1,
\* data() runs to its end, the groups it emitted, concatenated in emission
\* order, are the records, no group is empty, and every group but the last
\* has ceil(L/N) records.
C1_PartitionExact ==
  (chunk_count >= 1 /\ GenFinished(gen)) =>
     /\ gen.pc = "done"
     /\ Concat(Groups) = Records
     /\ \A u \in 1..Len(units) : Groups[u] # <<>>
     /\ \A u \in 1..(Len(units) - 1) :
          Len(Groups[u]) = CeilOf(Len(Records), chunk_count)

\* C9: with a chunk count N <= 0, data() fails with InvalidConfiguration and
\* emits no work unit, whatever the number of records.
C9_InvalidConfiguration ==
  (chunk_count <= 0 /\ GenFinished(gen)) =>
     /\ gen.pc = "raised"
     /\ gen.error = "InvalidConfiguration"
     /\ units = <<>>

\* C10: for L >= 1 records and N >= 1, data() emits ceil(L / ceil(L/N))
\* groups; at most N of them when L >= N, and L groups of one record each
\* when L < N.
C10_GroupCount ==
  (chunk_count >= 1 /\ Len(Records) >= 1 /\ GenFinished(gen)) =>
     LET L == Len(Records)
         N == chunk_count IN
       /\ gen.pc = "done"
       /\ Len(units) = CeilOf(L, CeilOf(L, N))
       /\ (L >= N => Len(units) <= N)
       /\ (L < N => Len(units) = L /\ \A u \in 1..Len(units) : Len(Groups[u]) = 1)

\* C10 witness: 3 chunks asked of 2 records, and data() has emitted 2 groups
C10_Witness ==
  /\ chunk_count = 3
  /\ Len(Records) = 2
  /\ gen.pc = "done"
  /\ Len(units) = 2

-----------------------------------------------------------------------------
(* Properties of a run, checked under Spec *)

Terminal == toppc \in {"exit_ok", "exit_cancelled", "exit_timeout", "exit_error",
                       "exit_interrupt"}

Dispatches == { u \in 1..Len(units) : units[u].status # "Pending" }

\* the tasks with a truthy result among those main() has printed, in order
Matches == SelectSeq(consumed, LAMBDA u : Truthy(units[u].result))

\* C2: once main() has observed a completed unit with a truthy result, no
\* further unit is taken from the producer or dispatched, and the run
\* reports that unit's result.
C2_EarlyStop ==
  [][ /\ Truthy(result) => (Len(units') = Len(units) /\ Dispatches' = Dispatches)
      /\ (report = <<>> /\ report' # <<>> /\ Matches # <<>>) =>
            report' = <<"Found matching word", units[Head(Matches)].result>> ]_vars

\* C3: "No matching words found." is printed only when the producer is
\* exhausted and every unit it produced is Completed or Failed: none is
\* Pending or Dispatched.
C3_Exhaustion ==
  report = <<"No matching words found.">> =>
     /\ gen.pc = "done"
     /\ \A u \in 1..Len(units) : units[u].status \in {"Completed", "Failed"}

\* C3 witness: no match is reported for a run of two units or more, one of
\* which failed
C3_Witness ==
  /\ report = <<"No matching words found.">>
  /\ Len(units) >= 2
  /\ \E u \in 1..Len(units) : units[u].status = "Failed"
  /\ \E u \in 1..Len(units) : units[u].status = "Completed"

\* C4: the temporary file of a dispatch is closed on every way out of the
\* dispatch (completion, failure, cancellation, timeout), and none is open
\* once the run has ended.
C4_ResourceRelease ==
  /\ \A u \in 1..Len(units) :
       units[u].status \in {"Completed", "Failed"} => units[u].tmp = "closed"
  /\ Terminal => \A u \in 1..Len(units) : units[u].tmp # "open"

C6_Governor ==
  [][ (interrupts >= 1 \/ why = "TimeoutError") =>
         /\ Dispatches' = Dispatches
         /\ Terminal' =>
              /\ toppc' \in {"exit_cancelled", "exit_timeout"}
              /\ \A c \in Contexts : wpc'[c] # "committed" ]_vars

\* C7: a second interrupt during the cancellation started by the first leaves
\* the run ending as with one interrupt: cancelled, the Executor shut down.
C7_CancelIdempotent ==
  (interrupts >= 2 /\ Terminal) =>
     /\ toppc \in {"exit_cancelled", "exit_timeout"}
     /\ exec = "closed"

\* C8: once a truthy result is observed while other units are in flight,
\* main() waits for none of them: it consumes no further task, and no
\* dispatch in flight is resumed to completion.
C8_NoWaiting ==
  [][ (Truthy(result) /\ mainpc = "loop" /\ InFlight # {}) =>
         /\ consumed' = consumed
         /\ \A u \in InFlight : units'[u].status # "Completed" ]_vars

\* the operations and remote paths of a plan, in order
Shape(plan) == [k \in 1..Len(plan) |-> <<plan[k].op, plan[k].dst>>]

\* C11: the plan committed for a unit is exactly: stage the unit's payload at
\* the words path, stage the hash file at the hash path, run the entry point,
\* fetch the result path to the local file; a unit not yet pulled has no plan,
\* and the shape is the same for every unit and every context.
C11_PlanShape ==
  \A u \in 1..Len(units) :
     IF units[u].status = "Pending"
     THEN units[u].plan = <<>>
     ELSE /\ Shape(units[u].plan) = << <<"send_json", "WORDS_PATH">>,
                                      <<"send_file", "HASH_PATH">>,
                                      <<"run", "/golem/entrypoint/worker.py">>,
                                      <<"download_file", "output_file.name">> >>
          /\ units[u].plan[1].src = units[u].data
          /\ units[u].plan[2].src = "args.hash"
          /\ units[u].plan[4].src = "RESULT_PATH"

\* C11 witness: one context has committed the plans of two different units
C11_Witness ==
  \E u, v \in 1..Len(units) :
     /\ u < v
     /\ units[u].ctx = units[v].ctx
     /\ units[u].plan # <<>>
     /\ units[v].plan # <<>>
     /\ units[u].data # units[v].data

\* C13: a unit's status only moves Pending -> Dispatched -> Completed or
\* Failed; its result is set only on the step to Completed, and that step is
\* taken only by the worker suspended at the yield of that unit's one
\* committed plan.
C13_WriteOnce ==
  [][ /\ Len(units') >= Len(units)
      /\ \A u \in 1..Len(units') :
           IF u > Len(units)
           THEN units'[u].status = "Pending" /\ units'[u].result = <<>>
           ELSE /\ \/ units'[u].status = units[u].status
                   \/ units[u].status = "Pending" /\ units'[u].status = "Dispatched"
                   \/ units[u].status = "Dispatched" /\ units'[u].status = "Completed"
                   \/ units[u].status = "Dispatched" /\ units'[u].status = "Failed"
                /\ units'[u].result # units[u].result =>
                      units[u].status = "Dispatched" /\ units'[u].status = "Completed"
                /\ (units[u].status # "Completed" /\ units'[u].status = "Completed") =>
                      /\ units[u].plan # <<>>
                      /\ units[u].commits = 1
                      /\ wpc[units[u].ctx] = "committed"
                      /\ wtask[units[u].ctx] = u ]_vars

\* C13 witness: one unit completed with a result, another one failed
C13_Witness ==
  \E u, v \in 1..Len(units) :
     /\ units[u].status = "Completed"
     /\ Truthy(units[u].result)
     /\ units[v].status = "Failed"

\* C14: main() is handed the units in the order in which their results were
\* accepted, whatever the order of their dispatch: the k-th unit consumed or
\* waiting to be consumed is the k-th unit that completed.
C14_CompletionOrder ==
  LET order == consumed \o computed IN
    /\ Len(order) = Cardinality(Accepted)
    /\ \A k \in 1..Len(order) : units[order[k]].seq = k

\* C14 witness: main() has consumed a unit while a unit dispatched before it
\* is still in flight
C14_Witness ==
  \E k \in 1..Len(consumed) : \E v \in InFlight : v < consumed[k]

\* C15: every unit is paired with at most one committed plan, and a unit that
\* is Completed or Failed is never dispatched again.
C15_NoRetry ==
  [][ \A u \in 1..Len(units) :
        /\ units'[u].commits <= 1
        /\ units[u].status \in {"Completed", "Failed"} =>
              /\ units'[u].status = units[u].status
              /\ units'[u].commits = units[u].commits
              /\ units'[u].plan = units[u].plan ]_vars

\* C15 witness: the run has reported while a unit that failed was committed once
C15_Witness ==
  /\ report # <<>>
  /\ \E u \in 1..Len(units) : units[u].status = "Failed" /\ units[u].commits = 1

\* C16: units are taken from data() one at a time and only on demand: a step
\* adds at most one unit, and while the Executor is open the units taken and
\* not yet handed to a worker never outnumber the workers waiting for one.
C16_DemandDriven ==
  [][ /\ Len(units') \in {Len(units), Len(units) + 1}
      /\ exec' = "open" => Cardinality(Pending') <= Cardinality(Waiting') ]_vars

\* C16 witness: a unit has completed while records of the file are still in
\* no unit
C16_Witness ==
  /\ gen.pc = "yielded"
  /\ gen.i + gen.chunk_size < Len(gen.lines)
  /\ Accepted # {}

C18_FinalReport ==
  [][ report' # <<>> =>
        /\ report # <<>> => report' = report
        /\ gen'.pc = "done"
        /\ computed' = <<>>
        /\ \A u \in 1..Len(units') : units'[u].status \in {"Completed", "Failed"}
        /\ Len(consumed') = Cardinality(Accepted')
        /\ IF Matches' # <<>>
           THEN report' = <<"Found matching word",
                            units'[Matches'[Len(Matches')]].result>>
           ELSE report' = <<"No matching words found.">> ]_vars

\* C18 witness: a match is reported after two units with different truthy
\* results were consumed
C18_Witness ==
  /\ Len(report) = 2
  /\ Len(Matches) >= 2
  /\ units[Matches[1]].result # units[Matches[Len(Matches)]].result

\* the units a context has pulled
Handled(c) == { u \in 1..Len(units) : units[u].ctx = c }

\* C19: a context has at most one unit in flight; when its worker waits for
\* the next task, every unit it pulled before is accepted with its temporary
\* file closed and nothing is left recorded on the context; a committed plan
\* holds the steps of one unit only.
C19_OneAtATime ==
  \A c \in Contexts :
     /\ Cardinality({ u \in Handled(c) : units[u].status = "Dispatched" }) <= 1
     /\ wpc[c] = "committed" =>
           /\ wtask[c] \in Handled(c)
           /\ \A u \in Handled(c) \ {wtask[c]} :
                 units[u].status = "Completed" /\ units[u].tmp = "closed"
     /\ wpc[c] = "pull" =>
           /\ wtask[c] = 0
           /\ steps[c] = <<>>
           /\ \A u \in Handled(c) :
                 units[u].status = "Completed" /\ units[u].tmp = "closed"
     /\ \A u \in Handled(c) :
           \A k \in 1..Len(units[u].plan) :
              units[u].plan[k].op = "send_json" =>
                 k = 1 /\ units[u].plan[k].src = units[u].data

\* C19 witness: a context has its second unit in flight, the first one being
\* accepted and its file closed
C19_Witness ==
  \E c \in Contexts :
     /\ wpc[c] = "committed"
     /\ \E u \in Handled(c) : u # wtask[c] /\ units[u].tmp = "closed"

-----------------------------------------------------------------------------
(* A run without deadline and without interrupt, every enabled step
   eventually taken *)

NextRun ==
  \/ Produce
  \/ \E c \in Contexts : Pull(c)
  \/ \E c \in Contexts : Accept(c)
  \/ \E c \in Contexts : PlanFail(c)
  \/ \E c \in Contexts : DecodeFail(c)
  \/ \E c \in Contexts : WorkerEnd(c)
  \/ MainConsume
  \/ MainReport
  \/ ProducerError
  \/ Shutdown

SpecRun == Init /\ [][NextRun]_vars /\ WF_vars(NextRun)

\* C20: with a words file of at least one record, no deadline and no
\* interrupt, and every plan completed or failed by the Executor, a run that
\* can take no further step has printed its final report and ended normally,
\* every record of the file having been handed out in a unit.
C20_Terminates ==
  (Len(file) >= 1 /\ ~ENABLED NextRun) =>
     /\ toppc = "exit_ok"
     /\ report # <<>>
     /\ gen.pc = "done"
     /\ Concat(Groups) = Records

=============================================================================
